---- MODULE Spec2Model ----
(***************************************************************************)
(* Release orchestration of cocogitto: Tag::bump and the automatic version *)
(* increment (src/src/conventional/bump.rs), and the three bump entry      *)
(* points create_version, create_package_version, create_monorepo_version  *)
(* of CocoGitto (src/src/lib.rs).                                          *)
(***************************************************************************)
EXTENDS Integers, Sequences, FiniteSets, TLC

\* ---------------------------------------------------------------- bounds
MaxMajor == 1      \* version fields of persisted tags and manual texts: 0..MaxMajor
MaxWindow == 2     \* commits in a commit window
MaxHooks == 1      \* hooks in one resolved hook list
MaxPackages == 2   \* packages configured in SETTINGS.packages
MaxOid == 2        \* commits in the repository before the run (oids 1..MaxOid)

\* ---------------------------------------------------------------- values
NoPackage == 0                      \* Tag.package = None
NoOid == 0                          \* Tag.oid = None
FirstCommit == 1                    \* repository.get_first_commit()
EMPTY == ""                         \* Prerelease::EMPTY, BuildMetadata::EMPTY
PreLabels == {"alpha"}              \* valid pre-release labels in use
BuildLabels == {"b1"}               \* valid build metadata in use
InvalidLabel == "al pha"            \* a label Prerelease::new rejects
None == "None"                      \* Option::None for string options

Fields == 0..MaxMajor

Versions ==
  [major : Fields, minor : Fields, patch : Fields,
   pre : {EMPTY} \cup PreLabels, build : {EMPTY} \cup BuildLabels]

MkVersion(M, m, p) == [major |-> M, minor |-> m, patch |-> p, pre |-> EMPTY, build |-> EMPTY]

MkTag(v, pkg, oid) == [version |-> v, package |-> pkg, oid |-> oid]

\* Tag::default(): version 0.0.0, no package, no oid
TagDefault == MkTag(MkVersion(0, 0, 0), NoPackage, NoOid)

\* Result<T, E>
Ok(v) == [ok |-> TRUE, val |-> v, err |-> "none"]
Err(v, e) == [ok |-> FALSE, val |-> v, err |-> e]

\* ------------------------------------------------- semver::Version order
\* Prerelease: EMPTY is greater than every non-empty label
PreLt(a, b) == a # EMPTY /\ b = EMPTY
\* BuildMetadata: EMPTY is less than every non-empty label
BuildLt(a, b) == a = EMPTY /\ b # EMPTY

VersionLt(a, b) ==
  \/ a.major < b.major
  \/ a.major = b.major /\ a.minor < b.minor
  \/ a.major = b.major /\ a.minor = b.minor /\ a.patch < b.patch
  \/ a.major = b.major /\ a.minor = b.minor /\ a.patch = b.patch /\ PreLt(a.pre, b.pre)
  \/ a.major = b.major /\ a.minor = b.minor /\ a.patch = b.patch /\ a.pre = b.pre
       /\ BuildLt(a.build, b.build)

VersionLe(a, b) == VersionLt(a, b) \/ a = b

\* ----------------------------------------------------------- Bump for Tag
\* Manual version text: dot separated numeric core, pre-release, build
ManualTexts ==
  [nums : {<<a, b, c>> : a \in Fields, b \in Fields, c \in Fields} \cup {<<1, 0>>},
   pre : {EMPTY} \cup PreLabels, build : {EMPTY}]

\* Version::parse: three numeric components are required
VersionParse(text) ==
  IF Len(text.nums) = 3
  THEN Ok([major |-> text.nums[1], minor |-> text.nums[2], patch |-> text.nums[3],
           pre |-> text.pre, build |-> text.build])
  ELSE Err(MkVersion(0, 0, 0), "semver::Error")

reset_metadata_keeps_pre(self) ==
  [self EXCEPT !.version.build = EMPTY, !.oid = NoOid]

reset_metadata(self) ==
  [self EXCEPT !.version.build = EMPTY, !.version.pre = EMPTY, !.oid = NoOid]

manual_bump_never_lower(self, text) ==
  LET parsed == VersionParse(text)
  IN  IF ~parsed.ok THEN Err(self, parsed.err)
      ELSE IF VersionLt(parsed.val, self.version) THEN Ok(self)
      ELSE Ok([self EXCEPT !.version = parsed.val])

manual_bump(self, text) ==
  LET parsed == VersionParse(text)
  IN  IF parsed.ok THEN Ok([self EXCEPT !.version = parsed.val])
      ELSE Err(self, parsed.err)

major_bump(self) ==
  reset_metadata([self EXCEPT !.version.major = @ + 1, !.version.minor = 0, !.version.patch = 0])

minor_bump_keeps_patch(self) ==
  reset_metadata([self EXCEPT !.version.minor = @ + 1])

minor_bump(self) ==
  reset_metadata([self EXCEPT !.version.minor = @ + 1, !.version.patch = 0])

patch_bump_drops_package(self) ==
  reset_metadata([self EXCEPT !.version.patch = @ + 1, !.package = NoPackage])

patch_bump(self) ==
  reset_metadata([self EXCEPT !.version.patch = @ + 1])

\* ----------------------------------------------------- commits of a window
CommitTypes == {"Feature", "BugFix", "Other"}

\* conventional commits: Commit.message.{commit_type, is_breaking_change}
Commits == [commit_type : CommitTypes, is_breaking_change : BOOLEAN]

\* raw git commits: a merge commit ("Merge ..."), a message that does not
\* parse as a conventional commit, or a conventional commit.  The text of a
\* merge commit or of a message that does not parse can still speak of a
\* breaking feature ("Merge pull request #1 feat!: ..")
RawCommits ==
  [message : {"merge", "unparsable"}, commit_type : {"Feature"}, is_breaking_change : {TRUE}]
  \cup [message : {"conventional"}, commit_type : CommitTypes, is_breaking_change : BOOLEAN]

SeqsUpTo(S, n) == UNION {[1..k -> S] : k \in 0..n}

Windows == SeqsUpTo(Commits, MaxWindow)
RawWindows == SeqsUpTo(RawCommits, MaxWindow)

AnyBreaking(commits) == \E i \in 1..Len(commits) : commits[i].is_breaking_change
AnyFeature(commits) == \E i \in 1..Len(commits) : commits[i].commit_type = "Feature"
AnyBugFix(commits) == \E i \in 1..Len(commits) : commits[i].commit_type = "BugFix"

version_increment_minor_first(self, commits) ==
  IF AnyFeature(commits) THEN Ok("Minor")
  ELSE IF self.version.major # 0 /\ AnyBreaking(commits) THEN Ok("Major")
  ELSE IF AnyBugFix(commits) THEN Ok("Patch")
  ELSE Err("None", "NoCommitFound")

version_increment_no_major_guard(self, commits) ==
  IF AnyBreaking(commits) THEN Ok("Major")
  ELSE IF AnyFeature(commits) THEN Ok("Minor")
  ELSE IF AnyBugFix(commits) THEN Ok("Patch")
  ELSE Err("None", "NoCommitFound")

version_increment_patch_first(self, commits) ==
  IF self.version.major # 0 /\ AnyBreaking(commits) THEN Ok("Major")
  ELSE IF AnyBugFix(commits) THEN Ok("Patch")
  ELSE IF AnyFeature(commits) THEN Ok("Minor")
  ELSE Err("None", "NoCommitFound")

version_increment_auto_fallback(self, commits) ==
  IF self.version.major # 0 /\ AnyBreaking(commits) THEN Ok("Major")
  ELSE IF AnyFeature(commits) THEN Ok("Minor")
  ELSE IF AnyBugFix(commits) THEN Ok("Patch")
  ELSE IF commits # <<>> THEN Ok("Auto")
  ELSE Err("None", "NoCommitFound")

version_increment_latest_commit(self, commits) ==
  IF commits = <<>> THEN Err("None", "NoCommitFound")
  ELSE IF self.version.major # 0 /\ commits[1].is_breaking_change THEN Ok("Major")
  ELSE IF commits[1].commit_type = "Feature" THEN Ok("Minor")
  ELSE IF commits[1].commit_type = "BugFix" THEN Ok("Patch")
  ELSE Err("None", "NoCommitFound")

version_increment_from_commit_history(self, commits) ==
  LET is_major_bump == self.version.major # 0 /\ AnyBreaking(commits)
      is_minor_bump == AnyFeature(commits)
      is_patch_bump == AnyBugFix(commits)
  IN  IF is_major_bump THEN Ok("Major")
      ELSE IF is_minor_bump THEN Ok("Minor")
      ELSE IF is_patch_bump THEN Ok("Patch")
      ELSE Err("None", "NoCommitFound")

RECURSIVE SelectSeqBy(_, _)
SelectSeqBy(s, kind) ==
  IF s = <<>> THEN <<>>
  ELSE IF Head(s).message = kind
       THEN <<[commit_type |-> Head(s).commit_type,
               is_breaking_change |-> Head(s).is_breaking_change]>> \o SelectSeqBy(Tail(s), kind)
       ELSE SelectSeqBy(Tail(s), kind)

ConventionalCommits_keeps_all(raw) ==
  [i \in 1..Len(raw) |-> [commit_type |-> raw[i].commit_type,
                          is_breaking_change |-> raw[i].is_breaking_change]]

\* lines 94-106: drop merge commits, keep what parses as a conventional commit
ConventionalCommits(raw) == SelectSeqBy(raw, "conventional")

\* the part of create_version_from_commit_history after the commit range is
\* fetched: classify the window and apply the increment
\* lines 112-117: Ok(match increment_type { .. })
apply_increment(self, increment_type) ==
  IF increment_type = "Major" THEN Ok(major_bump(self))
  ELSE IF increment_type = "Minor" THEN Ok(minor_bump(self))
  ELSE IF increment_type = "Patch" THEN Ok(patch_bump(self))
  ELSE Err(self, "unreachable")

apply_commit_history(self, raw) ==
  LET increment_type == version_increment_from_commit_history(self, ConventionalCommits(raw))
  IN  IF ~increment_type.ok THEN Err(self, increment_type.err)
      ELSE apply_increment(self, increment_type.val)

\* ------------------------------------------------------------- arguments
NoText == [nums |-> <<>>, pre |-> EMPTY, build |-> EMPTY]

\* VersionIncrement
Increments ==
  [kind : {"Major", "Minor", "Patch", "Auto"}, text : {NoText}]
  \cup [kind : {"Manual"}, text : ManualTexts]

AutoIncrement == [kind |-> "Auto", text |-> NoText]

PreReleaseArgs == {None, InvalidLabel} \cup PreLabels

Oids == 1..MaxOid

\* the versions of the tags found in the repository: M.0.0 and M.0.0-alpha
TagVersions ==
  [major : Fields, minor : {0}, patch : {0}, pre : {EMPTY} \cup PreLabels, build : {EMPTY}]

\* tags the backend can return as the latest tag of a scope
PersistedTags(pkg) == {MkTag(v, pkg, oid) : v \in TagVersions, oid \in Oids}

\* the hook lists of the settings: commands, hooks that do not parse, hooks
\* with a placeholder that has no value
HookSpecs == {"cmd", "unparsable", "unresolved"}
HookSettings == SeqsUpTo(HookSpecs, MaxHooks)
NoSettings == [PreBump |-> <<>>, PostBump |-> <<>>, loaded |-> {}]

\* ----------------------------------------------------------------- state
VARIABLES
  op,             \* entry point being run
  increment,      \* argument increment: VersionIncrement, from its first use on
  pre_release,    \* argument pre_release: Option<&str>, from its first use on
  dry_run,        \* argument dry_run, from its first use on
  packages,       \* SETTINGS.packages, named 1..packages
  settings,       \* the hooks run_hooks resolves, per hook type from their first use on
  pc,             \* position in the entry point
  idx,            \* position of the package loops of create_monorepo_version
  has_tag,        \* the latest tag query returned Ok (else the 0.0.0 fallback)
  current_tag,    \* current_tag
  next_version,   \* next_version
  tag,            \* tag
  hook_result,    \* hook_result of the pre-bump hooks
  package_bumps,  \* package_bumps
  head,           \* oid of HEAD
  effects,        \* what has been done to the repository and by hooks, in order
  stdout,         \* tags printed by dry runs
  result,         \* "running", Ok(()) = "ok", Err = "err", exit(1) = "exit"
  error,          \* cause of the Err
  inputs,         \* input of the resolver when it is run on its own
  decision        \* its output

vars == <<op, increment, pre_release, dry_run, packages, settings, pc, idx, has_tag, current_tag,
          next_version, tag, hook_result, package_bumps, head, effects, stdout, result,
          error, inputs, decision>>

args == <<op, packages>>
resolver == <<inputs, decision>>

Ev(o, t, n) == [op |-> o, tag |-> t, n |-> n]

NoInputs == [self |-> TagDefault, commits |-> <<>>]
NoDecision == Err("None", "not run")

Init ==
  /\ op \in {"create_version", "create_package_version", "create_monorepo_version"}
  /\ increment = AutoIncrement
  /\ pre_release = None
  /\ dry_run = FALSE
  /\ packages \in IF op = "create_version" THEN {0}
                  ELSE IF op = "create_package_version" THEN {1}
                  ELSE 0..MaxPackages
  /\ settings = NoSettings
  /\ pc = "pre_bump_checks"
  /\ idx = IF op = "create_package_version" THEN 1 ELSE 0
  /\ has_tag = FALSE
  /\ current_tag = TagDefault
  /\ next_version = TagDefault
  /\ tag = TagDefault
  /\ hook_result = "none"
  /\ package_bumps = <<>>
  /\ head = MaxOid
  /\ effects = <<>>
  /\ stdout = <<>>
  /\ result = "running"
  /\ error = "none"
  /\ inputs = NoInputs
  /\ decision = NoDecision

\* an argument is read for the first time: always in create_version and
\* create_package_version, in the first package of create_monorepo_version
FirstUse == op # "create_monorepo_version" \/ idx = 1

\* the package the current release unit is about (None for create_version)
Package == IF op = "create_version" THEN NoPackage ELSE idx

Mono == op = "create_monorepo_version"

\* return Err(cause) / bail!(cause)
Fail(cause) ==
  /\ pc' = "done"
  /\ result' = "err"
  /\ error' = cause

\* the locals of one iteration of the first loop of create_monorepo_version
ResetLocals ==
  /\ has_tag' = FALSE
  /\ current_tag' = TagDefault
  /\ next_version' = TagDefault
  /\ tag' = TagDefault
  /\ hook_result' = "none"

\* `continue` and the end of the body of the first loop of create_monorepo_version
NextPackage ==
  /\ ResetLocals
  /\ IF idx < packages
     THEN pc' = "get_latest_tag" /\ idx' = idx + 1
     ELSE pc' = "commit" /\ idx' = 0

\* --------------------------------------------------------- pre_bump_checks
Patterns == {"main", "release/*"}
Branches == {"main", "release/1", "dev", "feature/x"}

\* globset matching of the branch names in use
GlobMatch(pattern, branch) ==
  \/ pattern = "main" /\ branch = "main"
  \/ pattern = "release/*" /\ branch = "release/1"

pre_bump_checks(statuses, branch_whitelist, branch) ==
  IF statuses = "error" THEN Err("", "Git2Error")
  ELSE IF statuses # "clean" THEN Err("", "statuses")
  ELSE IF branch_whitelist # {} /\ branch # None
          /\ ~\E pattern \in branch_whitelist : GlobMatch(pattern, branch)
       THEN Err("", "No patterns matched")
  ELSE Ok("")

PreBumpChecks ==
  /\ pc = "pre_bump_checks"
  /\ \E statuses \in {"error", "dirty", "clean"}, branch_whitelist \in SUBSET Patterns,
        branch \in Branches \cup {None} :
       LET checks == pre_bump_checks(statuses, branch_whitelist, branch)
       IN  IF ~checks.ok
           THEN Fail(checks.err) /\ UNCHANGED idx
           ELSE /\ UNCHANGED <<result, error>>
                /\ IF Mono /\ packages = 0
                   THEN pc' = "commit" /\ idx' = 0
                   ELSE pc' = "get_latest_tag" /\ idx' = (IF Mono THEN 1 ELSE idx)
  /\ UNCHANGED <<args, increment, pre_release, dry_run, settings, has_tag, current_tag,
                 next_version, tag, hook_result, package_bumps,
                 head, effects, stdout, resolver>>

\* ------------------------------------------------------ latest tag lookup
\* get_latest_tag / get_latest_package_tag and the match on its result
GetLatestTag ==
  /\ pc = "get_latest_tag"
  /\ \/ \E t \in PersistedTags(Package) :
          /\ has_tag' = TRUE
          /\ current_tag' = t
          /\ pc' = "bump"
          /\ UNCHANGED <<result, error>>
     \/ /\ has_tag' = FALSE                  \* TagError::NoTag
        /\ current_tag' = TagDefault
        /\ pc' = "bump"
        /\ UNCHANGED <<result, error>>
     \/ /\ Fail("TagError")
        /\ UNCHANGED <<has_tag, current_tag>>
  /\ UNCHANGED <<args, increment, pre_release, dry_run, settings, idx, next_version, tag,
                 hook_result, package_bumps, head, effects,
                 stdout, resolver>>

\* ---------------------------------------------------------------- Tag::bump
\* create_version_from_commit_history; latest_tag_oid is the answer of
\* repository.get_latest_tag_oid(), range the answer of get_commit_range and
\* display_history
\* lines 73-82: let changelog_start_oid = match &self.package { .. }
changelog_start_oid(self, latest_tag_oid) ==
  IF self.package = NoPackage THEN latest_tag_oid
  ELSE IF self.oid # NoOid THEN Ok(self.oid) ELSE Ok(FirstCommit)

create_version_from_commit_history(self, latest_tag_oid, range) ==
  LET start == changelog_start_oid(self, latest_tag_oid)
  IN  IF ~start.ok THEN Err(self, start.err)
      ELSE IF ~range.ok THEN Err(self, range.err)
      ELSE apply_commit_history(self, range.val)

bump(self, incr, latest_tag_oid, range) ==
  IF incr.kind = "Major" THEN Ok(major_bump(self))
  ELSE IF incr.kind = "Minor" THEN Ok(minor_bump(self))
  ELSE IF incr.kind = "Patch" THEN Ok(patch_bump(self))
  ELSE IF incr.kind = "Auto"
       THEN create_version_from_commit_history(self, latest_tag_oid, range)
  ELSE manual_bump(self, incr.text)

\* what repository.get_latest_tag_oid() can answer: the oid of the repository
\* wide tag.  In create_version that tag is current_tag; in the package entry
\* points it is another tag than the package's
LatestTagOidAnswers ==
  IF op = "create_version"
  THEN IF has_tag THEN {Ok(current_tag.oid)} ELSE {Err(NoOid, "TagError")}
  ELSE {Err(NoOid, "TagError")} \cup {Ok(o) : o \in Oids}

\* what get_commit_range and display_history can answer
RangeAnswers == {Err(<<>>, "Git2Error")} \cup {Ok(w) : w \in RawWindows}

\* the repository is asked by the Auto increment only
NoAnswer == Err(NoOid, "not asked")

\* the tags bump is called on
CurrentTags == {TagDefault} \cup UNION {PersistedTags(pkg) : pkg \in 0..MaxPackages}

\* the outcomes of the Auto bump over everything the commit range can be
AutoOutcomes ==
  [self \in CurrentTags, latest_tag_oid \in {Err(NoOid, "TagError")} \cup {Ok(o) : o \in Oids} |->
     {bump(self, AutoIncrement, latest_tag_oid, range) : range \in RangeAnswers}]

BumpOutcomes(self, incr, latest_tag_oid) ==
  IF incr.kind = "Auto"
  THEN AutoOutcomes[self, latest_tag_oid]
  ELSE {bump(self, incr, NoAnswer, NoAnswer)}

\* let mut next_version = current_tag.bump(increment, &self.repository)?
Bump_in_place ==
  /\ pc = "bump"
  /\ \E incr \in IF Mono THEN {AutoIncrement} ELSE Increments :
     \E latest_tag_oid \in IF incr.kind = "Auto" THEN LatestTagOidAnswers ELSE {NoAnswer} :
     \E bumped \in BumpOutcomes(current_tag, incr, latest_tag_oid) :
       /\ increment' = incr
       /\ IF bumped.ok
          THEN /\ next_version' = bumped.val
               /\ current_tag' = bumped.val
               /\ pc' = "guard"
               /\ UNCHANGED <<result, error>>
          ELSE /\ Fail(bumped.err)
               /\ UNCHANGED <<next_version, current_tag>>
  /\ UNCHANGED <<args, pre_release, dry_run, settings, idx, has_tag, tag,
                 hook_result, package_bumps, head,
                 effects, stdout, resolver>>

Bump ==
  /\ pc = "bump"
  /\ \E incr \in IF Mono THEN {AutoIncrement} ELSE Increments :
     \E latest_tag_oid \in IF incr.kind = "Auto" THEN LatestTagOidAnswers ELSE {NoAnswer} :
     \E bumped \in BumpOutcomes(current_tag, incr, latest_tag_oid) :
       /\ increment' = incr
       /\ IF bumped.ok
          THEN /\ next_version' = bumped.val
               /\ pc' = "guard"
               /\ UNCHANGED <<result, error>>
          ELSE /\ Fail(bumped.err)
               /\ UNCHANGED next_version
  /\ UNCHANGED <<args, pre_release, dry_run, settings, idx, has_tag, current_tag, tag,
                 hook_result, package_bumps, head,
                 effects, stdout, resolver>>

\* ------------------------------------------------------------------- guard
GuardRejects_lt(next, current) == VersionLt(next.version, current.version)

\* next_version.version.le(&current_tag.version) || next_version.eq(&current_version)
GuardRejects(next, current) ==
  VersionLe(next.version, current.version) \/ next.version = current.version

MonotonicGuard ==
  /\ pc = "guard"
  /\ IF GuardRejects(next_version, current_tag)
     THEN Fail("SemVer Error")
     ELSE pc' = "pre_release" /\ UNCHANGED <<result, error>>
  /\ UNCHANGED <<args, increment, pre_release, dry_run, settings, idx, has_tag,
                 current_tag, next_version, tag, hook_result,
                 package_bumps, head, effects, stdout, resolver>>

\* Prerelease::new
PrereleaseNew(label) == IF label \in PreLabels THEN Ok(label) ELSE Err(EMPTY, "semver::Error")

\* Tag::create(next_version, package)
TagCreate(version, pkg) == MkTag(version, pkg, NoOid)

\* if let Some(pre_release) ... ; let tag = Tag::create(..)
SetPreRelease ==
  /\ pc = "pre_release"
  /\ \E arg \in IF FirstUse THEN PreReleaseArgs ELSE {pre_release} :
       LET pre == IF arg = None THEN Ok(next_version.version.pre) ELSE PrereleaseNew(arg)
       IN  /\ pre_release' = arg
           /\ IF ~pre.ok
              THEN Fail(pre.err) /\ UNCHANGED <<next_version, tag>>
              ELSE /\ next_version' = [next_version EXCEPT !.version.pre = pre.val]
                   /\ tag' = TagCreate(next_version'.version, Package)
                   /\ pc' = "dry_run"
                   /\ UNCHANGED <<result, error>>
  /\ UNCHANGED <<args, increment, dry_run, settings, idx, has_tag, current_tag,
                 hook_result, package_bumps, head,
                 effects, stdout, resolver>>

\* if dry_run { print!("{}", tag); return Ok(()) / continue }
DryRun ==
  /\ pc = "dry_run"
  /\ \E arg \in IF FirstUse THEN BOOLEAN ELSE {dry_run} :
       /\ dry_run' = arg
       /\ IF arg
          THEN /\ stdout' = Append(stdout, tag)
               /\ IF Mono
                  THEN NextPackage /\ UNCHANGED <<result, error>>
                  ELSE /\ pc' = "done"
                       /\ result' = "ok"
                       /\ UNCHANGED <<error, idx, has_tag, current_tag, next_version, tag,
                                      hook_result>>
          ELSE /\ pc' = "changelog"
               /\ UNCHANGED <<stdout, result, error, idx, has_tag, current_tag,
                              next_version, tag, hook_result>>
  /\ UNCHANGED <<args, increment, pre_release, settings, package_bumps, head, effects,
                 resolver>>

\* --------------------------------------------------------------- changelog
\* lines 453-467: origin, target, the changelog of the range and its write.
\* outcome is what the backend and the file system answer
\* let origin = if current_version == Version::new(0, 0, 0) { first commit }
\* else { current_tag.oid_unchecked() }
changelog_origin(current) ==
  IF current.version = MkVersion(0, 0, 0) THEN FirstCommit ELSE current.oid

BuildChangelog ==
  /\ pc = "changelog"
  /\ \E outcome \in {"error", "none", "written"} :
       \/ /\ outcome = "error"
          /\ Fail("Git2Error")
          /\ UNCHANGED <<effects, idx, has_tag, current_tag, next_version, tag, hook_result>>
       \/ /\ outcome = "none"                \* get_commit_range_for_packages: None
          /\ op = "create_package_version"
          /\ Fail("No commit matching package")
          /\ UNCHANGED <<effects, idx, has_tag, current_tag, next_version, tag, hook_result>>
       \/ /\ outcome = "none"
          /\ Mono
          /\ NextPackage                     \* println!(".. skipping."); continue
          /\ UNCHANGED <<effects, result, error>>
       \/ /\ outcome = "written"
          /\ effects' = Append(effects, Ev("changelog", tag, 0))
          /\ pc' = "pre_hooks"
          /\ UNCHANGED <<result, error, idx, has_tag, current_tag, next_version, tag,
                         hook_result>>
  /\ UNCHANGED <<args, increment, pre_release, dry_run, settings, package_bumps, head,
                 stdout, resolver>>

\* ---------------------------------------------------------------- run_hooks
\* what becomes of one hook: it parses, instantiates and exits 0 ("ok"), does
\* not parse, has a placeholder without value, or exits non-zero
HookOutcomes == {"ok", "unparsable", "unresolved", "failed"}

\* the hooks of one run_hooks call: a command exits 0 up to the first one
\* that exits non-zero (failed_at; 0 when none does)
HooksOf(specs, failed_at) ==
  [i \in 1..Len(specs) |->
     IF specs[i] # "cmd" THEN specs[i] ELSE IF i = failed_at THEN "failed" ELSE "ok"]

RECURSIVE run_hooks_loop(_, _, _, _)
\* for mut hook in hooks { hook.insert_versions(..)?; hook.run()?; }
run_hooks_loop(hooks, i, hook_type, t) ==
  IF i > Len(hooks) THEN [ok |-> TRUE, events |-> <<>>]
  ELSE IF hooks[i] = "unresolved" THEN [ok |-> FALSE, events |-> <<>>]
  ELSE IF hooks[i] = "failed" THEN [ok |-> FALSE, events |-> <<Ev(hook_type, t, i)>>]
  ELSE LET rest == run_hooks_loop(hooks, i + 1, hook_type, t)
       IN  [ok |-> rest.ok, events |-> <<Ev(hook_type, t, i)>> \o rest.events]

run_hooks_keeps_going(settings_ok, hooks, hook_type, t) ==
  IF ~settings_ok THEN [ok |-> FALSE, events |-> <<>>]
  ELSE IF \E i \in 1..Len(hooks) : hooks[i] = "unparsable"
       THEN [ok |-> FALSE, events |-> <<>>]
  ELSE [ok |-> \A i \in 1..Len(hooks) : hooks[i] = "ok",
        events |-> [i \in 1..Len(hooks) |-> Ev(hook_type, t, i)]]

run_hooks(settings_ok, hooks, hook_type, t) ==
  IF ~settings_ok THEN [ok |-> FALSE, events |-> <<>>]
  ELSE IF \E i \in 1..Len(hooks) : hooks[i] = "unparsable"
       THEN [ok |-> FALSE, events |-> <<>>]
  ELSE run_hooks_loop(hooks, 1, hook_type, t)

\* the hooks the settings hold for a hook type
SettingsHooks(hook_type) ==
  IF hook_type \in settings.loaded THEN {settings[hook_type]} ELSE HookSettings

Loaded(hook_type, specs) ==
  [settings EXCEPT ![hook_type] = specs, !.loaded = @ \cup {hook_type}]

\* let hook_result = self.run_hooks(HookType::PreBump, ..)
PreHooks ==
  /\ pc = "pre_hooks"
  /\ \E settings_ok \in BOOLEAN, specs \in SettingsHooks("PreBump") :
     \E failed_at \in 0..Len(specs) :
       LET ran == run_hooks(settings_ok, HooksOf(specs, failed_at), "PreBump", tag)
       IN  /\ settings' = Loaded("PreBump", specs)
           /\ effects' = effects \o ran.events
           /\ hook_result' = IF ran.ok THEN "Ok" ELSE "Err"
  /\ pc' = "add_all"
  /\ UNCHANGED <<args, increment, pre_release, dry_run, idx, has_tag, current_tag,
                 next_version, tag, package_bumps, head,
                 stdout, result, error, resolver>>

AddAll_then_commit ==
  /\ pc = "add_all"
  /\ \/ /\ Fail("Git2Error")
        /\ UNCHANGED effects
     \/ /\ effects' = Append(effects, Ev("add_all", tag, 0))
        /\ pc' = IF hook_result = "Err" THEN "stash" ELSE "commit"
        /\ UNCHANGED <<result, error>>
  /\ UNCHANGED <<args, increment, pre_release, dry_run, settings, idx, has_tag,
                 current_tag, next_version, tag, hook_result,
                 package_bumps, head, stdout, resolver>>

\* self.repository.add_all()?; if let Err(err) = hook_result { .. }
AddAll ==
  /\ pc = "add_all"
  /\ \/ /\ Fail("Git2Error")
        /\ UNCHANGED effects
     \/ /\ effects' = Append(effects, Ev("add_all", tag, 0))
        /\ pc' = IF hook_result = "Err" THEN "stash"
                 ELSE IF Mono THEN "push" ELSE "commit"
        /\ UNCHANGED <<result, error>>
  /\ UNCHANGED <<args, increment, pre_release, dry_run, settings, idx, has_tag,
                 current_tag, next_version, tag, hook_result,
                 package_bumps, head, stdout, resolver>>

StashFailedVersion_no_exit ==
  /\ pc = "stash"
  /\ effects' = Append(effects, Ev("stash", tag, 0))
  /\ pc' = IF Mono THEN "push" ELSE "commit"
  /\ UNCHANGED <<args, increment, pre_release, dry_run, settings, idx, has_tag,
                 current_tag, next_version, tag, hook_result,
                 package_bumps, head, stdout, result, error, resolver>>

\* stash_failed_version: repository.stash_failed_version(tag)?; error!(..); exit(1)
StashFailedVersion ==
  /\ pc = "stash"
  /\ \/ /\ Fail("Git2Error")
        /\ UNCHANGED effects
     \/ /\ effects' = Append(effects, Ev("stash", tag, 0))
        /\ pc' = "done"
        /\ result' = "exit"
        /\ error' = "PreHookError"
  /\ UNCHANGED <<args, increment, pre_release, dry_run, settings, idx, has_tag,
                 current_tag, next_version, tag, hook_result,
                 package_bumps, head, stdout, resolver>>

\* package_bumps.push((package_name, package, current, next_version, tag))
PushPackageBump ==
  /\ pc = "push"
  /\ package_bumps' = Append(package_bumps, [package |-> idx, current |-> has_tag, tag |-> tag])
  /\ NextPackage
  /\ UNCHANGED <<args, increment, pre_release, dry_run, settings, head, effects, stdout,
                 result, error, resolver>>

\* what repository.commit can answer: an error, or the oid of the commit it
\* has created on top of HEAD
CommitAnswers == {Err(NoOid, "Git2Error"), Ok(head + 1)}

Commit_skips_tag ==
  /\ pc = "commit"
  /\ \E answer \in CommitAnswers :
     \/ /\ ~answer.ok
        /\ Fail(answer.err)
        /\ UNCHANGED <<effects, head, idx>>
     \/ /\ answer.ok
        /\ head' = answer.val
        /\ effects' = Append(effects, Ev("commit", tag, answer.val))
        /\ IF Mono /\ package_bumps = <<>>
           THEN pc' = "done" /\ result' = "ok" /\ UNCHANGED <<error, idx>>
           ELSE /\ pc' = "post_hooks"
                /\ idx' = IF Mono THEN 1 ELSE idx
                /\ UNCHANGED <<result, error>>
  /\ UNCHANGED <<args, increment, pre_release, dry_run, settings, has_tag, current_tag,
                 next_version, tag, hook_result, package_bumps,
                 stdout, resolver>>

\* self.repository.commit(..)?
Commit ==
  /\ pc = "commit"
  /\ \E answer \in CommitAnswers :
     \/ /\ ~answer.ok
        /\ Fail(answer.err)
        /\ UNCHANGED <<effects, head, idx>>
     \/ /\ answer.ok
        /\ head' = answer.val
        /\ effects' = Append(effects, Ev("commit", tag, answer.val))
        /\ IF Mono /\ package_bumps = <<>>
           THEN pc' = "done" /\ result' = "ok" /\ UNCHANGED <<error, idx>>
           ELSE /\ pc' = "create_tag"
                /\ idx' = IF Mono THEN 1 ELSE idx
                /\ UNCHANGED <<result, error>>
  /\ UNCHANGED <<args, increment, pre_release, dry_run, settings, has_tag, current_tag,
                 next_version, tag, hook_result, package_bumps,
                 stdout, resolver>>

\* the tag of the release unit: tag, or the tag of the package bump at hand
UnitTag == IF Mono THEN package_bumps[idx].tag ELSE tag

\* self.repository.create_tag(&tag)?
CreateTag ==
  /\ pc = "create_tag"
  /\ \/ /\ Fail("Git2Error")
        /\ UNCHANGED effects
     \/ /\ effects' = Append(effects, Ev("create_tag", UnitTag, head))
        /\ pc' = "post_hooks"
        /\ UNCHANGED <<result, error>>
  /\ UNCHANGED <<args, increment, pre_release, dry_run, settings, idx, has_tag,
                 current_tag, next_version, tag, hook_result,
                 package_bumps, head, stdout, resolver>>

PostHooks_commit_per_package ==
  /\ pc = "post_hooks"
  /\ \E settings_ok \in BOOLEAN, specs \in SettingsHooks("PostBump") :
     \E failed_at \in 0..Len(specs) :
       LET ran == run_hooks(settings_ok, HooksOf(specs, failed_at), "PostBump", UnitTag)
       IN  /\ settings' = Loaded("PostBump", specs)
           /\ effects' = effects \o ran.events
           /\ head' = IF ran.ok /\ Mono /\ idx < Len(package_bumps) THEN head + 1 ELSE head
           /\ IF ~ran.ok
              THEN Fail("hook") /\ UNCHANGED idx
              ELSE IF Mono /\ idx < Len(package_bumps)
              THEN pc' = "create_tag" /\ idx' = idx + 1 /\ UNCHANGED <<result, error>>
              ELSE pc' = "done" /\ result' = "ok" /\ UNCHANGED <<error, idx>>
  /\ UNCHANGED <<args, increment, pre_release, dry_run, has_tag, current_tag, next_version,
                 tag, hook_result, package_bumps,
                 stdout, resolver>>

\* self.run_hooks(HookType::PostBump, ..)?
PostHooks_stash_on_failure ==
  /\ pc = "post_hooks"
  /\ \E settings_ok \in BOOLEAN, specs \in SettingsHooks("PostBump") :
     \E failed_at \in 0..Len(specs) :
       LET ran == run_hooks(settings_ok, HooksOf(specs, failed_at), "PostBump", UnitTag)
       IN  /\ settings' = Loaded("PostBump", specs)
           /\ IF ~ran.ok
              THEN /\ effects' = effects \o ran.events \o <<Ev("stash", UnitTag, 0)>>
                   /\ Fail("hook") /\ UNCHANGED idx
              ELSE /\ effects' = effects \o ran.events
                   /\ IF Mono /\ idx < Len(package_bumps)
                      THEN pc' = "create_tag" /\ idx' = idx + 1 /\ UNCHANGED <<result, error>>
                      ELSE pc' = "done" /\ result' = "ok" /\ UNCHANGED <<error, idx>>
  /\ UNCHANGED <<args, increment, pre_release, dry_run, has_tag, current_tag, next_version,
                 tag, hook_result, package_bumps,
                 head, stdout, resolver>>

PostHooks ==
  /\ pc = "post_hooks"
  /\ \E settings_ok \in BOOLEAN, specs \in SettingsHooks("PostBump") :
     \E failed_at \in 0..Len(specs) :
       LET ran == run_hooks(settings_ok, HooksOf(specs, failed_at), "PostBump", UnitTag)
       IN  /\ settings' = Loaded("PostBump", specs)
           /\ effects' = effects \o ran.events
           /\ IF ~ran.ok
              THEN Fail("hook") /\ UNCHANGED idx
              ELSE IF Mono /\ idx < Len(package_bumps)
              THEN pc' = "create_tag" /\ idx' = idx + 1 /\ UNCHANGED <<result, error>>
              ELSE pc' = "done" /\ result' = "ok" /\ UNCHANGED <<error, idx>>
  /\ UNCHANGED <<args, increment, pre_release, dry_run, has_tag, current_tag, next_version,
                 tag, hook_result, package_bumps,
                 head, stdout, resolver>>

Next ==
  \/ PreBumpChecks
  \/ GetLatestTag
  \/ Bump
  \/ MonotonicGuard
  \/ SetPreRelease
  \/ DryRun
  \/ BuildChangelog
  \/ PreHooks
  \/ AddAll
  \/ StashFailedVersion
  \/ PushPackageBump
  \/ Commit
  \/ CreateTag
  \/ PostHooks

Spec == Init /\ [][Next]_vars

\* ------------------------------------------- the resolver run on its own
\* version_increment_from_commit_history applied to any current tag and any
\* window of conventional commits
ResolverTags == {MkTag(v, pkg, oid) : v \in Versions, pkg \in {NoPackage}, oid \in {NoOid}}

InitResolve ==
  /\ op = "version_increment_from_commit_history"
  /\ increment = AutoIncrement
  /\ pre_release = None
  /\ dry_run = FALSE
  /\ packages = 0
  /\ settings = NoSettings
  /\ pc = "resolve"
  /\ idx = 0
  /\ has_tag = FALSE
  /\ current_tag = TagDefault
  /\ next_version = TagDefault
  /\ tag = TagDefault
  /\ hook_result = "none"
  /\ package_bumps = <<>>
  /\ head = MaxOid
  /\ effects = <<>>
  /\ stdout = <<>>
  /\ result = "running"
  /\ error = "none"
  /\ inputs \in [self : ResolverTags, commits : Windows]
  /\ decision = NoDecision

\* lines 108-117: the increment of the window, applied to the current tag
Resolve ==
  /\ pc = "resolve"
  /\ decision' = version_increment_from_commit_history(inputs.self, inputs.commits)
  /\ next_version' = IF decision'.ok THEN apply_increment(inputs.self, decision'.val).val
                     ELSE next_version
  /\ pc' = "resolved"
  /\ UNCHANGED <<args, increment, pre_release, dry_run, settings, idx, has_tag,
                 current_tag, tag, hook_result,
                 package_bumps, head, effects, stdout, result, error, inputs>>

NextResolve == Resolve

SpecResolve == InitResolve /\ [][NextResolve]_vars

\* ================================================================== claims
Single == op \in {"create_version", "create_package_version"}

\* positions in effects of the events of one kind
At(o) == {i \in 1..Len(effects) : effects[i].op = o}
Mutations == {"changelog", "PreBump", "PostBump", "add_all", "stash", "commit", "create_tag"}

\* C1: in create_version and create_package_version, whatever the request
\* kind, when the resolved candidate's version is lower than or equal to the
\* current version the guard ends the operation in an error, and nothing
\* (changelog, hook, staging, commit, tag, stash) has been done by then.
C1_NonMonotonicFailsBeforeEffects ==
  [][(Single /\ pc = "guard" /\ VersionLe(next_version.version, current_tag.version))
       => (pc' = "done" /\ result' = "err" /\ error' = "SemVer Error"
           /\ effects = <<>> /\ effects' = <<>> /\ stdout' = <<>>)]_vars

\* a Manual request that repeated the current version of an existing tag and
\* was rejected
C1_Witness ==
  /\ Single /\ has_tag
  /\ increment.kind = "Manual"
  /\ next_version.version = current_tag.version
  /\ pc = "done" /\ result = "err" /\ error = "SemVer Error"
  /\ effects = <<>>

\* C2 as stated: in a single release unit, after a pre-bump hook failure the
\* changes are staged and stashed under a record for the candidate tag, the
\* run has failed, and there is no commit and no tag.
C2_Original ==
  (Single /\ hook_result = "Err" /\ pc = "done")
    => /\ result # "ok"
       /\ \E i \in At("add_all") : \E j \in At("stash") : i < j /\ effects[j].tag = tag
       /\ At("commit") = {} /\ At("create_tag") = {}

\* C2 amended: in a single release unit, after a pre-bump hook failure there
\* is never a commit or a tag and the run cannot end well; it ends either by
\* exit(1) with the changes staged and stashed under a record for the
\* candidate tag, or, when staging or the stash itself fails in the backend,
\* by that backend error with no stash record.
C2_PreHookFailureAborts ==
  (Single /\ hook_result = "Err")
    => /\ At("commit") = {} /\ At("create_tag") = {}
       /\ pc \in {"add_all", "stash", "done"}
       /\ pc = "done" => result \in {"err", "exit"}
       /\ (pc = "done" /\ result = "exit")
            => /\ Len(effects) >= 2
               /\ effects[Len(effects)] = Ev("stash", tag, 0)
               /\ effects[Len(effects) - 1] = Ev("add_all", tag, 0)
       /\ (pc = "done" /\ result = "err") => (error = "Git2Error" /\ At("stash") = {})

C2_Witness ==
  /\ Single /\ hook_result = "Err" /\ pc = "done" /\ result = "exit"
  /\ At("PreBump") # {}
  /\ At("stash") # {}

\* C3: in a single release unit every pre-bump hook comes before the commit
\* and the tag, with the pre-bump hooks having succeeded when the commit is
\* made; the tag comes after the commit; every post-bump hook comes after the
\* tag.
C3_SingleUnitOrder ==
  Single
    => /\ \A i \in At("PreBump") : \A j \in At("commit") \cup At("create_tag") : i < j
       /\ At("commit") # {} => hook_result = "Ok"
       /\ \A j \in At("create_tag") : \E i \in At("commit") : i < j
       /\ \A k \in At("PostBump") : \E j \in At("create_tag") : j < k

C3_Witness ==
  /\ Single /\ pc = "done" /\ result = "ok"
  /\ At("PreBump") # {} /\ At("commit") # {} /\ At("create_tag") # {} /\ At("PostBump") # {}

\* C4: a dry run does nothing to the repository in any of the three entry
\* points: no changelog, no hook, no staging, no commit, no tag, no stash.
C4_DryRunNoMutation ==
  dry_run => \A i \in 1..Len(effects) : effects[i].op \notin Mutations

\* C5: in create_monorepo_version no commit exists while the package loop
\* runs, the commit position is entered only from the last package, at most
\* one commit is ever made and exactly one in a run that ends well; when it
\* is made, changelog, pre-bump hooks and staging of every package bump lie
\* before it, every staged package has its bump record and nothing was
\* stashed.
C5LoopPcs ==
  {"get_latest_tag", "bump", "guard", "pre_release", "dry_run", "changelog", "pre_hooks",
   "add_all", "stash", "push"}

C5_OneCommitAfterLoopInv ==
  Mono
    => /\ Cardinality(At("commit")) <= 1
       /\ pc \in C5LoopPcs \cup {"pre_bump_checks", "commit"} => At("commit") = {}
       /\ (pc = "done" /\ result = "ok") => Cardinality(At("commit")) = 1
       /\ \A c \in At("commit") :
            /\ At("stash") = {}
            /\ \A i \in At("changelog") \cup At("PreBump") \cup At("add_all") : i < c
            /\ \A i \in At("add_all") :
                 \E b \in 1..Len(package_bumps) : package_bumps[b].tag = effects[i].tag
            /\ \A b \in 1..Len(package_bumps) :
                 /\ \E i \in At("changelog") : effects[i].tag = package_bumps[b].tag
                 /\ \E i \in At("add_all") : effects[i].tag = package_bumps[b].tag

C5_OneCommitAfterLoop ==
  /\ []C5_OneCommitAfterLoopInv
  /\ [][(Mono /\ pc # "commit" /\ pc' = "commit") => idx = packages]_vars

C5_Witness ==
  /\ Mono /\ pc = "done" /\ result = "ok"
  /\ Len(package_bumps) = 2
  /\ Cardinality(At("commit")) = 1
  /\ Cardinality(At("add_all")) = 2

\* C6: in create_monorepo_version every pre-bump hook of every package lies
\* before the commit, every tag and every post-bump hook lies after it, and
\* every tag of the run is put on that one commit.
C6_MonorepoOrder ==
  Mono
    => /\ \A i \in At("PreBump") : \A c \in At("commit") : i < c
       /\ \A k \in At("create_tag") \cup At("PostBump") : \E c \in At("commit") : c < k
       /\ \A k \in At("create_tag") : \A c \in At("commit") : effects[k].n = effects[c].n

C6_Witness ==
  /\ Mono /\ pc = "done" /\ result = "ok"
  /\ Cardinality(At("create_tag")) = 2
  /\ Cardinality(At("PreBump")) = 2 /\ Cardinality(At("PostBump")) = 2

\* C7 as stated: in create_monorepo_version, once the pre-bump hook of a
\* package has failed the run ends with a stash record for that package's
\* candidate tag, no commit and no tag.
C7_Original ==
  (Mono /\ hook_result = "Err" /\ pc = "done")
    => /\ result # "ok"
       /\ \E j \in At("stash") : effects[j].tag = tag
       /\ At("commit") = {} /\ At("create_tag") = {}

\* C7 amended: in create_monorepo_version, once the pre-bump hook of a
\* package has failed (after any number of packages that passed) there is no
\* commit and no tag, no further package is processed and the run cannot end
\* well; it ends by exit(1) with a stash record for the failing package's
\* candidate tag, or, when staging or the stash fails in the backend, by
\* that backend error with no stash record.
C7_MonorepoPreHookFailureAborts ==
  (Mono /\ hook_result = "Err")
    => /\ At("commit") = {} /\ At("create_tag") = {}
       /\ pc \in {"add_all", "stash", "done"}
       /\ tag.package = idx
       /\ \A b \in 1..Len(package_bumps) : package_bumps[b].package < idx
       /\ pc = "done" => result \in {"err", "exit"}
       /\ (pc = "done" /\ result = "exit")
            => /\ Len(effects) >= 2
               /\ effects[Len(effects)] = Ev("stash", tag, 0)
               /\ Cardinality(At("stash")) = 1
       /\ (pc = "done" /\ result = "err") => (error = "Git2Error" /\ At("stash") = {})

C7_Witness ==
  /\ Mono /\ hook_result = "Err" /\ pc = "done" /\ result = "exit"
  /\ Len(package_bumps) >= 1
  /\ \E i \in At("add_all") : effects[i].tag = package_bumps[1].tag
  /\ \E j \in At("stash") : effects[j].tag.package = 2

\* C8: in create_monorepo_version a package without qualifying commit is
\* skipped: the run never ends in the error NoCommitFound.
C8_NoQualifyingCommitIsSkipped ==
  Mono => ~(pc = "done" /\ result = "err" /\ error = "NoCommitFound")

\* C9: with a current major version other than 0, a window with at least one
\* breaking commit resolves to Major, whatever else it holds and in whatever
\* order.
C9_BreakingYieldsMajor ==
  (pc = "resolved" /\ inputs.self.version.major # 0 /\ AnyBreaking(inputs.commits))
    => decision = Ok("Major")

C9_Witness ==
  /\ pc = "resolved"
  /\ inputs.self.version.major # 0
  /\ Len(inputs.commits) = 2
  /\ inputs.commits[1] = [commit_type |-> "Feature", is_breaking_change |-> FALSE]
  /\ inputs.commits[2].is_breaking_change
  /\ decision = Ok("Major")

\* C10: with current major version 0, a window with breaking commits but no
\* commit of type Feature or BugFix fails with NoCommitFound and yields no
\* bump.
C10_BreakingAtMajorZeroFails ==
  (pc = "resolved" /\ inputs.self.version.major = 0 /\ AnyBreaking(inputs.commits)
     /\ ~AnyFeature(inputs.commits) /\ ~AnyBugFix(inputs.commits))
    => (~decision.ok /\ decision.err = "NoCommitFound")

C10_Witness ==
  /\ pc = "resolved"
  /\ inputs.self.version = MkVersion(0, 1, 0)
  /\ inputs.commits = <<[commit_type |-> "Other", is_breaking_change |-> TRUE]>>
  /\ ~decision.ok /\ decision.err = "NoCommitFound"

\* ------------------------------------------------ Tag::bump on its own
\* the tags bump can be called on: every version, repository wide or of a
\* package, with or without an oid
BumpTags == {MkTag(v, pkg, oid) : v \in Versions, pkg \in {NoPackage, 1}, oid \in {NoOid} \cup Oids}

\* the texts of VersionIncrement::Manual, build metadata included
BumpTexts ==
  [nums : {<<a, b, c>> : a \in Fields, b \in Fields, c \in Fields} \cup {<<1, 0>>},
   pre : {EMPTY} \cup PreLabels, build : {EMPTY} \cup BuildLabels]

\* the calls self.bump(increment, repository), with what the repository
\* answers to the Auto increment
BumpCalls ==
  [self : BumpTags, increment : [kind : {"Major", "Minor", "Patch"}, text : {NoText}],
   latest_tag_oid : {NoAnswer}, range : {NoAnswer}]
  \cup [self : BumpTags, increment : [kind : {"Manual"}, text : BumpTexts],
        latest_tag_oid : {NoAnswer}, range : {NoAnswer}]
  \cup [self : BumpTags, increment : {AutoIncrement},
        latest_tag_oid : {Err(NoOid, "TagError"), Ok(FirstCommit)}, range : RangeAnswers]

InitBump ==
  /\ op = "Tag::bump"
  /\ increment = AutoIncrement
  /\ pre_release = None
  /\ dry_run = FALSE
  /\ packages = 0
  /\ settings = NoSettings
  /\ pc = "call"
  /\ idx = 0
  /\ has_tag = FALSE
  /\ current_tag = TagDefault
  /\ next_version = TagDefault
  /\ tag = TagDefault
  /\ hook_result = "none"
  /\ package_bumps = <<>>
  /\ head = 0
  /\ effects = <<>>
  /\ stdout = <<>>
  /\ result = "running"
  /\ error = "none"
  /\ inputs \in BumpCalls
  /\ decision = NoDecision

\* pub fn bump(&self, increment, repository) -> Result<Self, BumpError>
TagBump ==
  /\ pc = "call"
  /\ decision' = bump(inputs.self, inputs.increment, inputs.latest_tag_oid, inputs.range)
  /\ pc' = "returned"
  /\ UNCHANGED <<args, increment, pre_release, dry_run, settings, idx, has_tag,
                 current_tag, next_version, tag, hook_result,
                 package_bumps, head, effects, stdout, result, error, inputs>>

NextBump == TagBump

SpecBump == InitBump /\ [][NextBump]_vars

\* ------------------------------------------- pre_bump_checks on its own
\* the answers of get_statuses and get_branch_shorthand and the configured
\* branch_whitelist
CheckInputs ==
  [statuses : {"error", "dirty", "clean"}, branch_whitelist : SUBSET Patterns,
   branch : Branches \cup {None}]

InitChecks ==
  /\ op \in {"create_version", "create_package_version"}
  /\ increment = AutoIncrement
  /\ pre_release = None
  /\ dry_run = FALSE
  /\ packages = (IF op = "create_version" THEN 0 ELSE 1)
  /\ settings = NoSettings
  /\ pc = "pre_bump_checks"
  /\ idx = 0
  /\ has_tag = FALSE
  /\ current_tag = TagDefault
  /\ next_version = TagDefault
  /\ tag = TagDefault
  /\ hook_result = "none"
  /\ package_bumps = <<>>
  /\ head = MaxOid
  /\ effects = <<>>
  /\ stdout = <<>>
  /\ result = "running"
  /\ error = "none"
  /\ inputs \in CheckInputs
  /\ decision = NoDecision

\* self.pre_bump_checks()? at the head of create_version and
\* create_package_version
CallPreBumpChecks ==
  /\ pc = "pre_bump_checks"
  /\ decision' = pre_bump_checks(inputs.statuses, inputs.branch_whitelist, inputs.branch)
  /\ IF decision'.ok
     THEN pc' = "get_latest_tag" /\ UNCHANGED <<result, error>>
     ELSE Fail(decision'.err)
  /\ UNCHANGED <<args, increment, pre_release, dry_run, settings, idx, has_tag,
                 current_tag, next_version, tag, hook_result,
                 package_bumps, head, effects, stdout, inputs>>

NextChecks == CallPreBumpChecks

SpecChecks == InitChecks /\ [][NextChecks]_vars

\* --------------------------------------- the hooks run_hooks chooses
\* the configured hook lists of one hook type, by the getter that reads them
HookGetters ==
  {"package.get_profile_hooks", "package.get_hooks",
   "settings.get_profile_hooks", "settings.get_hooks"}

HookConfigs == [HookGetters -> HookSettings]

Profiles == {"profile"}

\* let hooks: Vec<Hook> = match (package, hook_profile) { .. }
configured_hooks(package, hook_profile, config) ==
  IF package = NoPackage /\ hook_profile # None THEN config["settings.get_profile_hooks"]
  ELSE IF package # NoPackage /\ hook_profile # None THEN config["package.get_profile_hooks"]
  ELSE IF package # NoPackage THEN config["package.get_hooks"]
  ELSE config["settings.get_hooks"]

InitHooks ==
  /\ op = "run_hooks"
  /\ increment = AutoIncrement
  /\ pre_release = None
  /\ dry_run = FALSE
  /\ packages = 0
  /\ settings = NoSettings
  /\ pc = "match"
  /\ idx = 0
  /\ has_tag = FALSE
  /\ current_tag = TagDefault
  /\ next_version = TagDefault
  /\ tag = TagDefault
  /\ hook_result = "none"
  /\ package_bumps = <<>>
  /\ head = MaxOid
  /\ effects = <<>>
  /\ stdout = <<>>
  /\ result = "running"
  /\ error = "none"
  /\ inputs \in [package : {NoPackage, 1}, hook_profile : {None} \cup Profiles,
                 config : HookConfigs]
  /\ decision = NoDecision

MatchHooks ==
  /\ pc = "match"
  /\ decision' = Ok(configured_hooks(inputs.package, inputs.hook_profile, inputs.config))
  /\ pc' = "matched"
  /\ UNCHANGED <<args, increment, pre_release, dry_run, settings, idx, has_tag,
                 current_tag, next_version, tag, hook_result,
                 package_bumps, head, effects, stdout, result, error, inputs>>

NextHooks == MatchHooks

SpecHooks == InitHooks /\ [][NextHooks]_vars

\* ------------------------------------------------- run_hooks on its own
\* the hooks of one call, each with what becomes of it
HookRuns == SeqsUpTo(HookOutcomes, MaxHooks + 1)

InitRunHooks ==
  /\ op = "run_hooks"
  /\ increment = AutoIncrement
  /\ pre_release = None
  /\ dry_run = FALSE
  /\ packages = 0
  /\ settings = NoSettings
  /\ pc = "run_hooks"
  /\ idx = 0
  /\ has_tag = FALSE
  /\ current_tag = TagDefault
  /\ next_version = TagDefault
  /\ tag = TagDefault
  /\ hook_result = "none"
  /\ package_bumps = <<>>
  /\ head = MaxOid
  /\ effects = <<>>
  /\ stdout = <<>>
  /\ result = "running"
  /\ error = "none"
  /\ inputs \in [settings_ok : BOOLEAN, hooks : HookRuns, hook_type : {"PreBump", "PostBump"}]
  /\ decision = NoDecision

CallRunHooks ==
  /\ pc = "run_hooks"
  /\ LET ran == run_hooks(inputs.settings_ok, inputs.hooks, inputs.hook_type, tag)
     IN  /\ effects' = ran.events
         /\ decision' = IF ran.ok THEN Ok("") ELSE Err("", "hook")
         /\ result' = IF ran.ok THEN "ok" ELSE "err"
         /\ error' = IF ran.ok THEN error ELSE "hook"
  /\ pc' = "done"
  /\ UNCHANGED <<args, increment, pre_release, dry_run, settings, idx, has_tag,
                 current_tag, next_version, tag, hook_result,
                 package_bumps, head, stdout, inputs>>

NextRunHooks == CallRunHooks

SpecRunHooks == InitRunHooks /\ [][NextRunHooks]_vars

\* ------------------------- the commit windows of one Auto release unit
\* the tags get_latest_tag / get_latest_package_tag can find
WindowTags(pkg) == {MkTag(v, pkg, oid) : v \in Versions, oid \in Oids}

InitWindows ==
  /\ op \in {"create_version", "create_package_version"}
  /\ increment = AutoIncrement
  /\ pre_release = None
  /\ dry_run = FALSE
  /\ packages = (IF op = "create_version" THEN 0 ELSE 1)
  /\ settings = NoSettings
  /\ pc = "bump"
  /\ idx = 0
  /\ has_tag \in BOOLEAN
  /\ current_tag \in (IF has_tag THEN WindowTags(packages) ELSE {TagDefault})
  /\ next_version = TagDefault
  /\ tag = TagDefault
  /\ hook_result = "none"
  /\ package_bumps = <<>>
  /\ head = MaxOid
  /\ effects = <<>>
  /\ stdout = <<>>
  /\ result = "running"
  /\ error = "none"
  /\ inputs = NoInputs
  /\ decision = NoDecision

\* the start of the commit range of the Auto increment (bump.rs) and the
\* origin of the changelog (lib.rs) for the same current tag
CommitWindows ==
  /\ pc = "bump"
  /\ \E latest_tag_oid \in LatestTagOidAnswers :
       LET start == changelog_start_oid(current_tag, latest_tag_oid)
       IN  decision' = IF start.ok
                       THEN Ok([bump |-> start.val, changelog |-> changelog_origin(current_tag)])
                       ELSE Err("None", start.err)
  /\ pc' = "changelog"
  /\ UNCHANGED <<args, increment, pre_release, dry_run, settings, idx, has_tag,
                 current_tag, next_version, tag, hook_result,
                 package_bumps, head, effects, stdout, result, error, inputs>>

NextWindows == CommitWindows

SpecWindows == InitWindows /\ [][NextWindows]_vars

\* C11: when the window has no breaking commit or the current major version
\* is 0, the resolution is Minor if a commit has type Feature, else Patch if
\* a commit has type BugFix, else the failure NoCommitFound (the empty window
\* included); Minor gives M.(m+1).0 and Patch M.m.(p+1), so that 1.1.1 with
\* one Feature and one BugFix gives 1.2.0.
C11Feature == [commit_type |-> "Feature", is_breaking_change |-> FALSE]
C11BugFix == [commit_type |-> "BugFix", is_breaking_change |-> FALSE]

C11_MinorThenPatchThenFail ==
  (pc = "resolved" /\ ~(inputs.self.version.major # 0 /\ AnyBreaking(inputs.commits)))
    => LET v == inputs.self.version
       IN  /\ AnyFeature(inputs.commits)
             => /\ decision = Ok("Minor")
                /\ next_version.version = MkVersion(v.major, v.minor + 1, 0)
           /\ (~AnyFeature(inputs.commits) /\ AnyBugFix(inputs.commits))
             => /\ decision = Ok("Patch")
                /\ next_version.version = MkVersion(v.major, v.minor, v.patch + 1)
           /\ (~AnyFeature(inputs.commits) /\ ~AnyBugFix(inputs.commits))
             => /\ ~decision.ok /\ decision.err = "NoCommitFound"
                /\ next_version = TagDefault
           /\ (v = MkVersion(1, 1, 1) /\ inputs.commits = <<C11Feature, C11BugFix>>)
             => next_version.version = MkVersion(1, 2, 0)

C11_Witness ==
  /\ pc = "resolved"
  /\ inputs.self.version = MkVersion(1, 1, 1)
  /\ inputs.commits = <<C11BugFix, C11Feature>>
  /\ decision = Ok("Minor")
  /\ next_version.version = MkVersion(1, 2, 0)

\* ------------------------------------------------ claims on Tag::bump
Returned == pc = "returned"
Arithmetic == {"Major", "Minor", "Patch", "Auto"}

\* C12: for every current tag, with or without pre-release, build metadata
\* and oid, the tag returned by a Major, Minor, Patch or resolved Auto bump
\* has an empty pre-release, empty build metadata and no oid.
C12_ArithmeticBumpResetsMetadata ==
  (Returned /\ inputs.increment.kind \in Arithmetic /\ decision.ok)
    => /\ decision.val.version.pre = EMPTY
       /\ decision.val.version.build = EMPTY
       /\ decision.val.oid = NoOid

C12_Witness ==
  /\ Returned
  /\ inputs.increment.kind = "Auto"
  /\ inputs.self.version.pre # EMPTY
  /\ inputs.self.version.build # EMPTY
  /\ inputs.self.oid # NoOid
  /\ decision.ok
  /\ decision.val.version.pre = EMPTY
  /\ decision.val.version.build = EMPTY
  /\ decision.val.oid = NoOid

\* C13: Major maps (M, m, p) to (M+1, 0, 0), Minor to (M, m+1, 0) and Patch
\* to (M, m, p+1): the requested field grows by one, the lower fields are
\* zero and the higher fields are unchanged.
C13_ArithmeticBumpFields ==
  Returned =>
    LET v == inputs.self.version
        kind == inputs.increment.kind
        n == decision.val.version
    IN  /\ kind = "Major"
          => decision.ok /\ n.major = v.major + 1 /\ n.minor = 0 /\ n.patch = 0
        /\ kind = "Minor"
          => decision.ok /\ n.major = v.major /\ n.minor = v.minor + 1 /\ n.patch = 0
        /\ kind = "Patch"
          => decision.ok /\ n.major = v.major /\ n.minor = v.minor /\ n.patch = v.patch + 1

C13_Witness ==
  /\ Returned
  /\ inputs.increment.kind = "Minor"
  /\ inputs.self.version = MkVersion(1, 1, 1)
  /\ decision.ok
  /\ decision.val.version = MkVersion(1, 2, 0)

\* C14: Manual(text) returns, for every text that parses and whatever the
\* current version is, a tag whose version is the parsed text with its
\* pre-release and build metadata; for a text that does not parse it returns
\* the parse error and no tag.  No comparison with the current version is
\* made.
C14_ManualIsParsedText ==
  (Returned /\ inputs.increment.kind = "Manual")
    => LET text == inputs.increment.text
       IN  IF Len(text.nums) = 3
           THEN /\ decision.ok
                /\ decision.val.version =
                     [major |-> text.nums[1], minor |-> text.nums[2], patch |-> text.nums[3],
                      pre |-> text.pre, build |-> text.build]
           ELSE /\ ~decision.ok
                /\ decision.err = "semver::Error"

C14_Witness ==
  /\ Returned
  /\ inputs.increment.kind = "Manual"
  /\ inputs.self.version = MkVersion(1, 1, 0)
  /\ inputs.increment.text = [nums |-> <<0, 1, 1>>, pre |-> "alpha", build |-> "b1"]
  /\ decision.ok
  /\ VersionLt(decision.val.version, inputs.self.version)
  /\ decision.val.version.pre = "alpha"
  /\ decision.val.version.build = "b1"

\* C15: for a current tag that carries an oid, the tag returned by bump has
\* no oid, for every increment, Manual included.
C15_BumpClearsOid ==
  (Returned /\ decision.ok /\ inputs.self.oid # NoOid) => decision.val.oid = NoOid

\* C16: for every increment, bumping a tag of package P returns a tag of
\* package P, and bumping a repository wide tag returns a repository wide
\* tag.
C16_BumpKeepsPackage ==
  (Returned /\ decision.ok) => decision.val.package = inputs.self.package

C16_Witness ==
  /\ Returned
  /\ decision.ok
  /\ inputs.increment.kind = "Patch"
  /\ inputs.self.package = 1
  /\ decision.val.package = 1

\* C17: in create_version and create_package_version, when a post-bump hook
\* fails the operation ends in an error and nothing is undone: the commit
\* and the tag have been made, nothing is stashed and the process does not
\* exit through stash_failed_version.
C17_PostHookFailureKeepsRelease ==
  (Single /\ pc = "done" /\ result = "err" /\ error = "hook")
    => /\ At("commit") # {}
       /\ At("create_tag") # {}
       /\ \A i \in At("commit") : effects[i].tag = tag
       /\ \A i \in At("create_tag") : effects[i].tag = tag
       /\ At("stash") = {}
       /\ hook_result = "Ok"

C17_Witness ==
  /\ Single /\ pc = "done" /\ result = "err" /\ error = "hook"
  /\ At("PostBump") # {}
  /\ At("commit") # {} /\ At("create_tag") # {} /\ At("stash") = {}

\* C18: pre_bump_checks fails, with nothing done and before the latest tag
\* is looked up, whenever the working tree is dirty and whenever the
\* branch_whitelist is not empty and no pattern of it matches the current
\* branch; with an empty branch_whitelist and a clean tree it never fails.
C18_PreflightFails ==
  pc # "pre_bump_checks"
    => LET failed == pc = "done" /\ result = "err" /\ ~decision.ok
           no_match == ~\E pattern \in inputs.branch_whitelist :
                          GlobMatch(pattern, inputs.branch)
       IN  /\ inputs.statuses = "dirty" => failed
           /\ (inputs.branch_whitelist # {} /\ no_match) => failed
           /\ (inputs.branch_whitelist = {} /\ inputs.statuses = "clean") => ~failed
           /\ failed => effects = <<>> /\ ~has_tag /\ next_version = TagDefault

\* C19: with a package and a profile, run_hooks takes the hooks of the first
\* non-empty source among the package's profile hooks, the package's hooks,
\* the settings' profile hooks and the settings' hooks, and only those.
C19Order ==
  <<"package.get_profile_hooks", "package.get_hooks",
    "settings.get_profile_hooks", "settings.get_hooks">>

C19_FirstNonEmptySource ==
  (pc = "matched" /\ inputs.package # NoPackage /\ inputs.hook_profile # None)
    => \/ \E i \in 1..4 :
            /\ inputs.config[C19Order[i]] # <<>>
            /\ \A j \in 1..(i - 1) : inputs.config[C19Order[j]] = <<>>
            /\ decision.val = inputs.config[C19Order[i]]
       \/ /\ \A i \in 1..4 : inputs.config[C19Order[i]] = <<>>
          /\ decision.val = <<>>

\* C20: the hooks of one run_hooks call run one after another in their
\* declared order and the loop stops at the first failure: when hook i is
\* the first whose placeholders cannot be resolved or whose command fails,
\* hooks 1..i-1 have run, no hook after i has run and run_hooks returns an
\* error; hook i itself has been started only when it is its command that
\* fails.
C20Fails(i) == inputs.hooks[i] \in {"unresolved", "failed"}
C20Parsed == inputs.settings_ok /\ \A i \in 1..Len(inputs.hooks) : inputs.hooks[i] # "unparsable"

C20_HooksStopAtFirstFailure ==
  (pc = "done" /\ C20Parsed)
    => /\ \A k \in 1..Len(effects) : effects[k] = Ev(inputs.hook_type, tag, k)
       /\ \A i \in 1..Len(inputs.hooks) :
            (C20Fails(i) /\ \A j \in 1..(i - 1) : ~C20Fails(j))
              => /\ result = "err" /\ ~decision.ok
                 /\ Len(effects) = (IF inputs.hooks[i] = "failed" THEN i ELSE i - 1)
       /\ (\A i \in 1..Len(inputs.hooks) : ~C20Fails(i))
            => /\ result = "ok" /\ decision.ok
               /\ Len(effects) = Len(inputs.hooks)

C20_Witness ==
  /\ pc = "done" /\ C20Parsed
  /\ \E i \in 2..Len(inputs.hooks) :
       /\ inputs.hooks[i] = "failed"
       /\ \A j \in 1..(i - 1) : inputs.hooks[j] = "ok"
       /\ Len(effects) = i
  /\ result = "err"

\* C21: when the repository has no tag, bump is called on the default tag
\* 0.0.0 and the Auto increment does not fail for the missing tag: a commit
\* range that holds a BugFix commit and no Feature commit gives the tag 0.0.1.
C21_NoTagStartsAtFirstCommit ==
  (/\ Returned
   /\ inputs.increment.kind = "Auto"
   /\ inputs.self = TagDefault
   /\ ~inputs.latest_tag_oid.ok
   /\ inputs.range.ok
   /\ AnyBugFix(ConventionalCommits(inputs.range.val))
   /\ ~AnyFeature(ConventionalCommits(inputs.range.val)))
    => /\ decision.ok
       /\ decision.val.version = MkVersion(0, 0, 1)

\* C22: current_tag.bump(..) returns a new tag and changes nothing else, for
\* every increment: the current tag is the same after the call, and nothing
\* is staged, committed, tagged, stashed or printed by it.
C22_BumpLeavesInputs ==
  [][pc = "bump"
       => /\ current_tag' = current_tag
          /\ has_tag' = has_tag
          /\ effects' = effects
          /\ head' = head
          /\ stdout' = stdout
          /\ package_bumps' = package_bumps]_vars

C22_Witness ==
  /\ pc = "guard"
  /\ increment.kind = "Manual"
  /\ has_tag
  /\ next_version.version # current_tag.version
  /\ effects = <<>>

\* C23: in the Auto increment, merge commits and commits whose message does
\* not parse as a conventional commit do not count: the result for a commit
\* range is the result for the same range without them, and a range made of
\* such commits only fails with NoCommitFound.
C23Counted(commit) == commit.message = "conventional"
C23AutoRuns ==
  /\ Returned
  /\ inputs.increment.kind = "Auto"
  /\ inputs.self.package # NoPackage \/ inputs.latest_tag_oid.ok
  /\ inputs.range.ok

C23_IgnoredCommitsDoNotCount ==
  C23AutoRuns
    => LET counted == SelectSeq(inputs.range.val, C23Counted)
       IN  /\ decision = bump(inputs.self, inputs.increment, inputs.latest_tag_oid, Ok(counted))
           /\ counted = <<>> => (~decision.ok /\ decision.err = "NoCommitFound")

C23_Witness ==
  /\ C23AutoRuns
  /\ Len(inputs.range.val) = 2
  /\ inputs.range.val[1].message = "merge"
  /\ inputs.range.val[2] =
       [message |-> "conventional", commit_type |-> "BugFix", is_breaking_change |-> FALSE]
  /\ inputs.self.version = MkVersion(1, 0, 0)
  /\ decision.ok
  /\ decision.val.version = MkVersion(1, 0, 1)

\* C24: version_increment_from_commit_history answers Major, Minor or Patch,
\* or fails with NoCommitFound; it never answers Auto or Manual, so the
\* unreachable!() arm of create_version_from_commit_history is not taken,
\* whatever the commits and the current tag are.
C24_OutcomeIsArithmetic ==
  pc = "resolved"
    => IF decision.ok
       THEN /\ decision.val \in {"Major", "Minor", "Patch"}
            /\ apply_increment(inputs.self, decision.val).ok
       ELSE decision.err = "NoCommitFound"

C24_Witness ==
  /\ pc = "resolved"
  /\ Len(inputs.commits) = MaxWindow
  /\ \A i \in 1..Len(inputs.commits) : inputs.commits[i].commit_type = "Other"
  /\ inputs.commits[1].is_breaking_change
  /\ inputs.self.version.major = 0
  /\ ~decision.ok
  /\ decision.err = "NoCommitFound"

\* C25: the changelog of a release starts at the commit the Auto increment
\* started its commit range at, whatever the current tag is: none, a tag of
\* version 0.0.0 or a later one.
C25_ChangelogWindowIsBumpWindow ==
  (pc = "changelog" /\ decision.ok) => decision.val.changelog = decision.val.bump

\* C26: the increment chosen for a window depends on the current major
\* version and on which commits (type and breaking flag) the window holds,
\* not on their order nor on how often each occurs: every window with the
\* same set of commits gets the same answer.
C26CommitSet(w) == {w[i] : i \in 1..Len(w)}

C26_OrderAndDuplicatesDoNotCount ==
  pc = "resolved"
    => \A w \in Windows :
         C26CommitSet(w) = C26CommitSet(inputs.commits)
           => version_increment_from_commit_history(inputs.self, w) = decision

C26_Witness ==
  /\ pc = "resolved"
  /\ inputs.self.version.major = 1
  /\ Len(inputs.commits) = 2
  /\ inputs.commits[1] = [commit_type |-> "BugFix", is_breaking_change |-> FALSE]
  /\ inputs.commits[2] = [commit_type |-> "Other", is_breaking_change |-> TRUE]
  /\ decision = Ok("Major")

\* C27: in create_version and create_package_version the version of the tag
\* that is created is greater than the version of the current tag, also when
\* a pre_release label is given.
C27_TaggedVersionIsGreater ==
  (Single /\ At("create_tag") # {})
    => \A i \in At("create_tag") : VersionLt(current_tag.version, effects[i].tag.version)

\* C28: in create_monorepo_version, once the commit is made, the run ends
\* with the tag of every package bump created: when create_tag or a
\* post-bump hook fails for one package, the packages after it still have
\* their tag.
C28Tagged(k) == \E i \in At("create_tag") : effects[i].tag = package_bumps[k].tag

C28_LaterPackagesAreTagged ==
  (Mono /\ pc = "done" /\ At("commit") # {})
    => \A k \in 1..Len(package_bumps) : (result = "ok" \/ k > idx) => C28Tagged(k)

\* C29: create_monorepo_version makes its commit only when at least one
\* package has a bump record: when every package is skipped, or when there
\* is no package, no commit is made.
C29_NoCommitWithoutPackageBump ==
  (Mono /\ At("commit") # {}) => package_bumps # <<>>

====
